---- MODULE Spec2Model ----
(***************************************************************************)
(* Stripe webhook server (src/index.js): verified ingestion of webhook     *)
(* deliveries into the stripe_webhook_events table.                        *)
(*                                                                         *)
(* One delivery is one run of the POST /webhook handler.  The handler runs *)
(* synchronously up to its single suspension point, the awaited pool.query *)
(* of storeWebhookEvent; the store then executes the statement as one      *)
(* atomic step, or the query fails, or it is never answered; when the      *)
(* query settles the handler resumes with the event-type switch and the    *)
(* response.  Handlers of different deliveries interleave at the           *)
(* suspension point only.                                                  *)
(*                                                                         *)
(* constructEvent returns the parsed body of any correctly signed payload, *)
(* so a verified event need not carry data.object.  Event ids and types    *)
(* are abstract strings that fit the VARCHAR(255) columns; a statement the *)
(* store refuses for any other reason is a failed query.                   *)
(*                                                                         *)
(* The read endpoints, the startup (initializeDatabase, then app.listen)   *)
(* and the signal handlers are modelled further down, each with the        *)
(* specification its properties are checked under: Spec and FairSpec for   *)
(* ingestion, ReadSpec and LookupSpec for the read endpoints,              *)
(* LifecycleSpec for startup and shutdown.  The pool is represented by the *)
(* outcome of each query and by the number of pool.end() calls.            *)
(***************************************************************************)
EXTENDS Integers, FiniteSets, Sequences, TLC

\* Number of signals delivered to the process.
MaxSignals == 2
\* Number of deliveries handled in one run of the model.
MaxDeliveries == 2
\* Largest value of the store's CURRENT_TIMESTAMP.
MaxTime == 1

Deliveries == 1..MaxDeliveries

\* The case labels of the handler's switch.
SwitchTypes ==
    { "payment_intent.succeeded", "payment_intent.payment_failed",
      "customer.created", "customer.updated",
      "invoice.payment_succeeded", "invoice.payment_failed",
      "subscription.created", "subscription.updated", "subscription.deleted",
      "checkout.session.completed", "checkout.session.async_payment_failed",
      "checkout.session.expired" }

\* Event types delivered in the model: one the switch names, one it does not.
EventTypes == {"payment_intent.succeeded", "charge.refunded"}
EventIds == {"evt_1", "evt_2"}

\* The event constructEvent decodes from the body: event.id, event.type and
\* whether event.data.object is present (hasObject).
Events == [id : EventIds, type : EventTypes, hasObject : BOOLEAN]

\* req.headers['stripe-signature']: absent, or present and (in)valid for the
\* body under the endpoint's signing secret.
Signatures == {"absent", "invalid", "valid"}

VARIABLES
    secretSet,   \* WEBHOOK_SECRET is configured
    rows,        \* the rows of stripe_webhook_events
    seq,         \* next value of the SERIAL id sequence
    now,         \* the store's CURRENT_TIMESTAMP when the latest row was added
    req,         \* per delivery: the handler's position, locals and response;
                 \* `sequential` records that every earlier delivery was
                 \* answered on arrival, `raced` that a store call for the
                 \* same event id was pending when this one was issued
    schema,      \* the table and indexes that exist in the store
    proc,        \* the process: startup position, listening, signal handlers
                 \* waiting for pool.end(), calls of pool.end(), exit code
    resp         \* the latest response of a read endpoint, with its request

vars == <<secretSet, rows, seq, now, req, schema, proc, resp>>

\* What initializeDatabase creates, in its order.
SchemaObjects == {"table", "idx_event_type", "idx_created_at"}

\* The statements of initializeDatabase, in their order.
InitStatements == <<"table", "idx_event_type", "idx_created_at">>

\* The process at the call of startServer(): no statement of
\* initializeDatabase done (step), not listening, no signal handler waiting
\* for pool.end(), pool.end() never called, not exited.
Booting ==
    [ phase |-> "init", step |-> 0, listened |-> FALSE, waiting |-> 0,
      poolEnds |-> 0, exitCode |-> -1 ]

\* The process listening after startServer() succeeded.
Listening == [Booting EXCEPT !.phase = "listening", !.step = 3, !.listened = TRUE]

\* No read request answered yet.
NoResp == [kind |-> "none"]

NoEvent == [id |-> "", type |-> "", hasObject |-> FALSE]
NoBody == [none |-> TRUE]

\* A delivery that has not arrived yet.
IdleReq ==
    [ pc |-> "idle", sig |-> "absent", event |-> NoEvent, did |-> {},
      storeResult |-> "none", storeId |-> 0, storeUp |-> FALSE,
      status |-> 0, body |-> NoBody, sequential |-> FALSE, raced |-> FALSE ]

----------------------------------------------------------------------------
(* The table                                                               *)

\* Variant: the uniqueness constraint spans (event_id, event_type).
ConflictRows_IdAndType(rs, ev) ==
    {r \in rs : r.event_id = ev.id /\ r.event_type = ev.type}

\* UNIQUE (event_id): the rows an insert of `ev` conflicts with.
ConflictRows(rs, ev) == {r \in rs : r.event_id = ev.id}

\* VALUES ($1, $2, $3, CURRENT_TIMESTAMP) with the column defaults.
NewRow(ev, id, t) ==
    [ id |-> id, event_id |-> ev.id, event_type |-> ev.type, event_data |-> ev,
      created_at |-> t, processed_at |-> t ]

\* Variant: a plain INSERT, which the uniqueness constraint rejects with an
\* error when the id is present.
InsertWithoutOnConflict(rs, ev, id, t) ==
    IF ConflictRows(rs, ev) = {}
    THEN [rows |-> rs \cup {NewRow(ev, id, t)}, returning |-> <<id>>, error |-> FALSE]
    ELSE [rows |-> rs, returning |-> <<>>, error |-> TRUE]

\* Variant: ON CONFLICT (event_id) DO UPDATE, which overwrites the row.
InsertOnConflictDoUpdate(rs, ev, id, t) ==
    IF ConflictRows(rs, ev) = {}
    THEN [rows |-> rs \cup {NewRow(ev, id, t)}, returning |-> <<id>>, error |-> FALSE]
    ELSE LET old == CHOOSE r \in ConflictRows(rs, ev) : TRUE IN
         [ rows |-> (rs \ {old}) \cup
                    {[old EXCEPT !.event_type = ev.type, !.event_data = ev,
                                 !.processed_at = t]},
           returning |-> <<old.id>>, error |-> FALSE ]

\* INSERT ... ON CONFLICT (event_id) DO NOTHING RETURNING id, executed by the
\* store as one statement: the table after it and the result rows.
InsertOnConflictDoNothing(rs, ev, id, t) ==
    IF ConflictRows(rs, ev) = {}
    THEN [rows |-> rs \cup {NewRow(ev, id, t)}, returning |-> <<id>>, error |-> FALSE]
    ELSE [rows |-> rs, returning |-> <<>>, error |-> FALSE]

\* Variant: storeWebhookEvent swallows the error and returns null.
StoreOutcomeErrorSwallowed(q) ==
    IF ~q.error /\ Len(q.returning) > 0 THEN "Stored" ELSE "AlreadyExists"

\* storeWebhookEvent's result from the statement's outcome.
StoreOutcome(q) ==
    IF q.error THEN "StoreFailed"
    ELSE IF Len(q.returning) > 0 THEN "Stored" ELSE "AlreadyExists"

----------------------------------------------------------------------------
(* POST /webhook                                                           *)

\* Variant: the secret is checked before the signature header.
SecretCheckedFirst(sig, secret) ==
    IF ~secret THEN [did |-> {"secret"}, next |-> "reject", status |-> 500,
                     message |-> "Webhook secret not configured"]
    ELSE IF sig = "absent" THEN [did |-> {"secret"}, next |-> "reject", status |-> 400,
                                 message |-> "No stripe-signature header value was provided."]
    ELSE IF sig # "valid" THEN [did |-> {"secret", "verify"}, next |-> "reject", status |-> 400,
                                message |-> "Webhook signature verification failed"]
    ELSE [did |-> {"secret", "verify", "store"}, next |-> "store", status |-> 0,
          message |-> ""]

\* Variant: no check of the secret; constructEvent is called with an undefined
\* secret and throws.
SecretNotChecked(sig, secret) ==
    IF sig = "absent" THEN [did |-> {}, next |-> "reject", status |-> 400,
                            message |-> "No stripe-signature header value was provided."]
    ELSE IF ~secret \/ sig # "valid"
         THEN [did |-> {"verify"}, next |-> "reject", status |-> 400,
               message |-> "Webhook signature verification failed"]
    ELSE [did |-> {"verify", "store"}, next |-> "store", status |-> 0, message |-> ""]

\* Variant: the body is parsed without verifying the signature.
SignatureNotVerified(sig, secret) ==
    IF sig = "absent" THEN [did |-> {}, next |-> "reject", status |-> 400,
                            message |-> "No stripe-signature header value was provided."]
    ELSE IF ~secret THEN [did |-> {"secret"}, next |-> "reject", status |-> 500,
                          message |-> "Webhook secret not configured"]
    ELSE [did |-> {"secret", "store"}, next |-> "store", status |-> 0, message |-> ""]

\* The handler's checks before the store call: which steps run and how the
\* delivery leaves them.
SignatureAndSecretChecks(sig, secret) ==
    IF sig = "absent" THEN [did |-> {}, next |-> "reject", status |-> 400,
                            message |-> "No stripe-signature header value was provided."]
    ELSE IF ~secret THEN [did |-> {"secret"}, next |-> "reject", status |-> 500,
                          message |-> "Webhook secret not configured"]
    ELSE IF sig # "valid" THEN [did |-> {"secret", "verify"}, next |-> "reject", status |-> 400,
                                message |-> "Webhook signature verification failed"]
    ELSE [did |-> {"secret", "verify", "store"}, next |-> "store", status |-> 0,
          message |-> ""]

ErrorBody(status, message) ==
    [error |-> [code |-> IF status = 400 THEN "400" ELSE "500", message |-> message]]

AckBody(ev) == [received |-> TRUE, eventId |-> ev.id, eventType |-> ev.type]

\* The switch reads event.data.object.id in every named case and nothing in
\* the default case.
SwitchThrows(ev) == ev.type \in SwitchTypes /\ ~ev.hasObject

\* The response after the store step: the switch, then res.json, or the outer
\* catch.
Acknowledge(ev) ==
    IF SwitchThrows(ev)
    THEN [status |-> 500, body |-> ErrorBody(500, "A server error has occurred")]
    ELSE [status |-> 200, body |-> AckBody(ev)]

Done(d) == req[d].pc = "done"

\* Event ids are opaque to the handler and the table, so deliveries take
\* them in order of first use: "evt_2" only once "evt_1" has been delivered.
IdInOrder(ev) ==
    ev.id = "evt_1" \/ \E e \in Deliveries : req[e].event.id = "evt_1"

\* A delivery arrives: the handler runs to its first await or to a rejection.
WebhookReceive(d, sig, ev) ==
    /\ proc.phase = "listening"
    /\ req[d].pc = "idle"
    /\ \A e \in Deliveries : e < d => req[e].pc # "idle"
    /\ IdInOrder(ev)
    /\ LET c == SignatureAndSecretChecks(sig, secretSet) IN
       req' = [req EXCEPT ![d] =
                 [ @ EXCEPT !.pc = IF c.next = "store" THEN "query" ELSE "done",
                            !.sig = sig, !.did = c.did,
                            !.event = IF c.next = "store" THEN ev ELSE NoEvent,
                            !.status = c.status,
                            !.body = IF c.next = "store" THEN NoBody
                                     ELSE ErrorBody(c.status, c.message),
                            !.sequential = \A e \in Deliveries : e < d => Done(e),
                            !.raced = /\ c.next = "store"
                                      /\ \E e \in Deliveries :
                                            /\ req[e].pc = "query"
                                            /\ req[e].event.id = ev.id ]]
    /\ UNCHANGED <<secretSet, rows, seq, now, schema, proc, resp>>

\* CURRENT_TIMESTAMP of a statement: not before the time of the latest row.
\* Only an insert that adds a row records its time.
StatementTime(rs, ev, t) ==
    IF ConflictRows(rs, ev) = {} THEN t >= now /\ t <= now + 1 ELSE t = now

\* The store executes the pending insert at its time t and storeWebhookEvent
\* returns.
PoolQueryExecute(d, t) ==
    /\ proc.phase = "listening"
    /\ "table" \in schema
    /\ req[d].pc = "query"
    /\ StatementTime(rows, req[d].event, t)
    /\ LET q == InsertOnConflictDoNothing(rows, req[d].event, seq, t) IN
       /\ rows' = q.rows
       /\ seq' = seq + 1
       /\ now' = t
       /\ req' = [req EXCEPT ![d] =
                    [ @ EXCEPT !.pc = "replied", !.storeUp = TRUE,
                               !.storeResult = StoreOutcome(q),
                               !.storeId = IF Len(q.returning) > 0 THEN q.returning[1] ELSE 0 ]]
    /\ UNCHANGED <<secretSet, schema, proc, resp>>

\* The pending query fails and storeWebhookEvent rethrows: the statement
\* never reached the store, or (applied) the store executed it at time t and
\* the connection broke before the result arrived.
PoolQueryReject(d, applied, t) ==
    /\ proc.phase = "listening"
    /\ req[d].pc = "query"
    /\ IF applied
       THEN /\ "table" \in schema
            /\ StatementTime(rows, req[d].event, t)
            /\ rows' = InsertOnConflictDoNothing(rows, req[d].event, seq, t).rows
            /\ seq' = seq + 1
            /\ now' = t
       ELSE /\ t = now
            /\ UNCHANGED <<rows, seq, now>>
    /\ req' = [req EXCEPT ![d] =
                 [ @ EXCEPT !.pc = "replied", !.storeUp = FALSE,
                            !.storeResult =
                                StoreOutcome([returning |-> <<>>, error |-> TRUE]) ]]
    /\ UNCHANGED <<secretSet, schema, proc, resp>>

\* The handler resumes after the store step and answers.
WebhookRespond(d) ==
    /\ proc.phase = "listening"
    /\ req[d].pc = "replied"
    /\ LET a == Acknowledge(req[d].event) IN
       req' = [req EXCEPT ![d] =
                 [ @ EXCEPT !.pc = "done", !.status = a.status, !.body = a.body ]]
    /\ UNCHANGED <<secretSet, rows, seq, now, schema, proc, resp>>

\* The store never answers the pending query: the pool is built without
\* connection, query or statement timeout and the await has none, so the
\* handler stays suspended.
PoolQueryStall(d) ==
    /\ proc.phase = "listening"
    /\ req[d].pc = "query"
    /\ req' = [req EXCEPT ![d] = [@ EXCEPT !.pc = "stalled"]]
    /\ UNCHANGED <<secretSet, rows, seq, now, schema, proc, resp>>

----------------------------------------------------------------------------

\* The server after a successful startup on an empty store: the table and
\* its indexes exist and the process listens.
Init ==
    /\ secretSet \in BOOLEAN
    /\ rows = {}
    /\ seq = 1
    /\ now = 0
    /\ req = [d \in Deliveries |-> IdleReq]
    /\ schema = SchemaObjects
    /\ proc = Listening
    /\ resp = NoResp

Next ==
    \/ \E d \in Deliveries, sig \in Signatures, ev \in Events : WebhookReceive(d, sig, ev)
    \/ \E d \in Deliveries, t \in 0..MaxTime : PoolQueryExecute(d, t)
    \/ \E d \in Deliveries, applied \in BOOLEAN, t \in 0..MaxTime :
          PoolQueryReject(d, applied, t)
    \/ \E d \in Deliveries : WebhookRespond(d)
    \/ \E d \in Deliveries : PoolQueryStall(d)

Spec == Init /\ [][Next]_vars

\* The pending query of delivery d settles, either way.
PoolQuerySettles(d) ==
    \E applied \in BOOLEAN, t \in 0..MaxTime :
        PoolQueryExecute(d, t) \/ PoolQueryReject(d, applied, t)

\* The event loop runs every ready continuation, and a query the store has
\* not abandoned settles; nothing makes an abandoned query settle.
FairSpec ==
    /\ Spec
    /\ \A d \in Deliveries :
         /\ WF_vars(PoolQuerySettles(d))
         /\ WF_vars(WebhookRespond(d))

----------------------------------------------------------------------------
(***************************************************************************)
(* GET /events, GET /events/:eventId, GET /health                          *)
(*                                                                         *)
(* A read handler awaits one SELECT and answers from its result; the store *)
(* executes the statement as one atomic step, so a read is one step at the *)
(* moment of that execution.                                               *)
(***************************************************************************)

\* req.query.limit and req.query.offset: not given, not a number, numbers.
QueryNumbers == {"absent", "abc", "-1", "0", "1"}
\* req.query.type: not given, or an event type.
QueryTypes == {"absent"} \cup EventTypes

\* The default of limit.
DefaultLimit == 50

\* parseInt(x): the set holding the number x starts with; empty for NaN.
ParseInt(x) ==
    CASE x = "-1" -> {-1}
      [] x = "0"  -> {0}
      [] x = "1"  -> {1}
      [] OTHER    -> {}

\* parseInt(x) || d: NaN and 0 are falsy and give d.
ParseIntOr(x, d) ==
    LET p == ParseInt(x)
    IN  IF p = {} \/ p = {0} THEN d ELSE CHOOSE n \in p : TRUE

\* Variant: the WHERE clause is never added.
WhereOmitted(rs, type) == rs

\* The rows the statement ranges over: WHERE event_type = $1 is added only
\* for a truthy req.query.type.
WhereEventType(rs, type) ==
    IF type = "absent" THEN rs ELSE {r \in rs : r.event_type = type}

\* Every arrangement of rs, without repetition.
Arrangements(rs) ==
    {s \in [1..Cardinality(rs) -> rs] : \A i, j \in DOMAIN s : i # j => s[i] # s[j]}

\* ORDER BY created_at DESC: the arrangements the store may return; rows of
\* equal created_at come in any order.
OrderByCreatedAtDesc(rs) ==
    {s \in Arrangements(rs) :
        \A i, j \in DOMAIN s : i < j => s[i].created_at >= s[j].created_at}

\* LIMIT limit OFFSET offset of an ordered result.
LimitOffset(s, limit, offset) ==
    LET last == IF offset + limit < Len(s) THEN offset + limit ELSE Len(s)
    IN  [i \in 1..(IF last > offset THEN last - offset ELSE 0) |-> s[offset + i]]

\* A query the store did not answer with a result.
QueryFailed(rs) == [rows |-> rs, result |-> <<>>, error |-> TRUE]

\* The outcomes of the SELECT of GET /events; the store refuses a negative
\* LIMIT or OFFSET.
SelectEvents(rs, type, limit, offset) ==
    IF limit < 0 \/ offset < 0
    THEN {QueryFailed(rs)}
    ELSE {[rows |-> rs, result |-> LimitOffset(s, limit, offset), error |-> FALSE] :
            s \in OrderByCreatedAtDesc(WhereEventType(rs, type))}

\* Variant: the lookup without its WHERE clause.
SelectWithoutWhere(rs, id) ==
    [rows |-> rs, result |-> rs, error |-> FALSE]

\* Variant: the lookup marks the row as processed and returns it.
UpdateProcessedReturning(rs, id) ==
    LET hit == {r \in rs : r.event_id = id}
        upd == {[r EXCEPT !.processed_at = r.processed_at + 1] : r \in hit}
    IN  [rows |-> (rs \ hit) \cup upd, result |-> upd, error |-> FALSE]

\* SELECT * FROM stripe_webhook_events WHERE event_id = $1.
SelectByEventId(rs, id) ==
    [rows |-> rs, result |-> {r \in rs : r.event_id = id}, error |-> FALSE]

\* GET /events.  `up` tells whether the store answers the query.
GetEvents(limitQ, offsetQ, typeQ, up) ==
    /\ proc.phase = "listening"
    /\ LET limit  == ParseIntOr(limitQ, DefaultLimit)
           offset == ParseIntOr(offsetQ, 0)
       IN  \E q \in (IF up THEN SelectEvents(rows, typeQ, limit, offset)
                            ELSE {QueryFailed(rows)}) :
             /\ rows' = q.rows
             /\ resp' = [ kind |-> "list", limitQ |-> limitQ, offsetQ |-> offsetQ,
                          typeQ |-> typeQ, up |-> up,
                          status |-> IF q.error THEN 500 ELSE 200,
                          events |-> q.result, count |-> Len(q.result),
                          limit |-> limit, offset |-> offset ]
    /\ UNCHANGED <<secretSet, seq, now, req, schema, proc>>

\* GET /events/:eventId.
GetEventById(id, up) ==
    /\ proc.phase = "listening"
    /\ LET q == IF up THEN SelectByEventId(rows, id) ELSE QueryFailed(rows)
       IN  /\ rows' = q.rows
           /\ IF q.error
              THEN resp' = [ kind |-> "byId", eventId |-> id, up |-> up,
                             status |-> 500, found |-> {} ]
              ELSE IF q.result = {}
              THEN resp' = [ kind |-> "byId", eventId |-> id, up |-> up,
                             status |-> 404, found |-> {} ]
              ELSE \E r \in q.result :
                     resp' = [ kind |-> "byId", eventId |-> id, up |-> up,
                               status |-> 200, found |-> {r} ]
    /\ UNCHANGED <<secretSet, seq, now, req, schema, proc>>

\* GET /health: SELECT 1.
GetHealth(up) ==
    /\ proc.phase = "listening"
    /\ resp' = [kind |-> "health", up |-> up, status |-> IF up THEN 200 ELSE 500]
    /\ UNCHANGED <<secretSet, rows, seq, now, req, schema, proc>>

Reads ==
    \/ \E limitQ, offsetQ \in QueryNumbers, typeQ \in QueryTypes, up \in BOOLEAN :
          GetEvents(limitQ, offsetQ, typeQ, up)
    \/ \E id \in EventIds, up \in BOOLEAN : GetEventById(id, up)
    \/ \E up \in BOOLEAN : GetHealth(up)

\* The stores that n executed inserts of verified deliveries can leave.
RECURSIVE StoresAfter(_)
StoresAfter(n) ==
    IF n = 0
    THEN {[rows |-> {}, seq |-> 1, now |-> 0]}
    ELSE LET prev == StoresAfter(n - 1) IN
         prev \cup
         UNION { { [ rows |-> InsertOnConflictDoNothing(st.rows, ev, st.seq, t).rows,
                     seq  |-> st.seq + 1,
                     now  |-> t ] :
                   t \in { u \in 0..MaxTime :
                             IF ConflictRows(st.rows, ev) = {}
                             THEN u >= st.now /\ u <= st.now + 1
                             ELSE u = st.now } } :
                 st \in prev, ev \in Events }

\* The server after a successful startup on a store that earlier runs have
\* filled: CREATE TABLE IF NOT EXISTS keeps the rows.  No read handler
\* consults WEBHOOK_SECRET.
ReadInit ==
    /\ secretSet = TRUE
    /\ \E st \in StoresAfter(MaxDeliveries) :
          /\ rows = st.rows
          /\ seq = st.seq
          /\ now = st.now
    /\ req = [d \in Deliveries |-> IdleReq]
    /\ schema = SchemaObjects
    /\ proc = Listening
    /\ resp = NoResp

\* The read endpoints over a filled store.
ReadSpec == ReadInit /\ [][Reads]_vars

\* Deliveries that the store always answers, and lookups between them.
LookupNext ==
    \/ \E d \in Deliveries, sig \in Signatures, ev \in Events : WebhookReceive(d, sig, ev)
    \/ \E d \in Deliveries, t \in 0..MaxTime : PoolQueryExecute(d, t)
    \/ \E d \in Deliveries : WebhookRespond(d)
    \/ \E id \in EventIds, up \in BOOLEAN : GetEventById(id, up)
    \/ \E up \in BOOLEAN : GetHealth(up)

LookupSpec == Init /\ [][LookupNext]_vars

----------------------------------------------------------------------------
(***************************************************************************)
(* startServer, initializeDatabase, SIGTERM and SIGINT                     *)
(*                                                                         *)
(* startServer awaits the three statements of initializeDatabase one after *)
(* the other and then calls app.listen; a rejected statement ends the      *)
(* process with code 1.  The signal handlers are registered before         *)
(* startServer is called; each of them calls pool.end(), awaits it and     *)
(* exits with code 0.                                                      *)
(***************************************************************************)

\* Variant: app.listen is called without awaiting initializeDatabase.
ListenNotAwaited(step) == TRUE

\* startServer reaches app.listen once initializeDatabase has returned.
InitializeDatabaseReturned(step) == step = Len(InitStatements)

\* CREATE TABLE / CREATE INDEX IF NOT EXISTS: the schema and the rows after
\* the statement.
CreateIfNotExists(sch, rs, object) ==
    [schema |-> sch \cup {object}, rows |-> rs]

\* The store executes the next statement of initializeDatabase.
InitStatementExecute ==
    /\ proc.phase = "init"
    /\ proc.step < Len(InitStatements)
    /\ (proc.step > 0 => "table" \in schema)
    /\ LET c == CreateIfNotExists(schema, rows, InitStatements[proc.step + 1]) IN
       /\ schema' = c.schema
       /\ rows' = c.rows
    /\ proc' = [proc EXCEPT !.step = @ + 1]
    /\ UNCHANGED <<secretSet, seq, now, req, resp>>

\* A statement of initializeDatabase is rejected: initializeDatabase
\* rethrows and startServer's catch calls process.exit(1).
InitStatementReject ==
    /\ proc.phase = "init"
    /\ proc.step < Len(InitStatements)
    /\ proc' = [proc EXCEPT !.phase = "exited", !.exitCode = 1]
    /\ UNCHANGED <<secretSet, rows, seq, now, req, schema, resp>>

\* startServer resumes after the await and calls app.listen.
Listen ==
    /\ proc.phase = "init"
    /\ InitializeDatabaseReturned(proc.step)
    /\ proc' = [proc EXCEPT !.phase = "listening", !.listened = TRUE]
    /\ UNCHANGED <<secretSet, rows, seq, now, req, schema, resp>>

\* SIGTERM or SIGINT arrives: its handler calls pool.end() and awaits it.
Signal(name) ==
    /\ proc.phase # "exited"
    /\ proc.poolEnds < MaxSignals
    /\ proc' = [proc EXCEPT !.poolEnds = @ + 1, !.waiting = @ + 1]
    /\ UNCHANGED <<secretSet, rows, seq, now, req, schema, resp>>

\* The first pool.end() resolves: its handler resumes with process.exit(0).
PoolEndResolves ==
    /\ proc.phase # "exited"
    /\ proc.waiting > 0
    /\ proc' = [proc EXCEPT !.phase = "exited", !.exitCode = 0, !.waiting = 0]
    /\ UNCHANGED <<secretSet, rows, seq, now, req, schema, resp>>

\* A repeated pool.end() is rejected by the pool ("Called end on pool more
\* than once"); the handler has no catch, so the rejection is unhandled and
\* the runtime ends the process with code 1.
PoolEndRejects ==
    /\ proc.phase # "exited"
    /\ proc.poolEnds > 1
    /\ proc' = [proc EXCEPT !.phase = "exited", !.exitCode = 1, !.waiting = 0]
    /\ UNCHANGED <<secretSet, rows, seq, now, req, schema, resp>>

\* The stores startServer can find: none yet, one left by an earlier start
\* that failed part way, or a complete one that an earlier run has filled.
FoundStores ==
    { [schema |-> {InitStatements[i] : i \in 1..n}, rows |-> {}, seq |-> 1, now |-> 0] :
        n \in 0..Len(InitStatements) }
    \cup
    { [schema |-> SchemaObjects, rows |-> st.rows, seq |-> st.seq, now |-> st.now] :
        st \in {u \in StoresAfter(1) :
                   \A r \in u.rows : /\ r.event_id = "evt_1" /\ r.created_at = 0
                                     /\ r.event_data.hasObject} }

\* The process at the call of startServer().
LifecycleInit ==
    /\ secretSet \in BOOLEAN
    /\ \E st \in FoundStores :
          /\ schema = st.schema
          /\ rows = st.rows
          /\ seq = st.seq
          /\ now = st.now
    /\ req = [d \in Deliveries |-> IdleReq]
    /\ proc = Booting
    /\ resp = NoResp

LifecycleNext ==
    \/ InitStatementExecute
    \/ InitStatementReject
    \/ Listen
    \/ \E name \in {"SIGTERM", "SIGINT"} : Signal(name)
    \/ PoolEndResolves
    \/ PoolEndRejects
    \/ \E d \in Deliveries, sig \in Signatures, ev \in Events : WebhookReceive(d, sig, ev)
    \/ \E d \in Deliveries, t \in 0..MaxTime : PoolQueryExecute(d, t)
    \/ \E d \in Deliveries : WebhookRespond(d)

LifecycleSpec == LifecycleInit /\ [][LifecycleNext]_vars

----------------------------------------------------------------------------
(* Properties                                                              *)

\* The delivery passed signature verification.
Verified(d) == req[d].sig = "valid" /\ "verify" \in req[d].did

\* The delivery's store call has returned.
PastStore(d) == "store" \in req[d].did /\ req[d].pc \in {"replied", "done"}

\* The step is the arrival of delivery d.
Arrives(d) == req[d].pc = "idle" /\ req'[d].pc # "idle"

\* C1: in every reachable state the table holds at most one row per
\* external event id.
C1_OneRowPerEventId ==
    \A r1, r2 \in rows : r1.event_id = r2.event_id => r1 = r2

\* Two deliveries of one id have both executed their insert on a reachable
\* store.
C1_Witness ==
    \E d1, d2 \in Deliveries :
        /\ d1 # d2 /\ PastStore(d1) /\ PastStore(d2)
        /\ req[d1].storeUp /\ req[d2].storeUp
        /\ req[d1].event.id = req[d2].event.id
        /\ req[d1].event.type # req[d2].event.type

\* The verified store calls for event id `id` that returned from a reachable
\* store.
AnsweredCalls(id) ==
    {d \in Deliveries : Verified(d) /\ PastStore(d) /\ req[d].storeUp /\ req[d].event.id = id}

\* C2: when store calls for the same verified event id were pending at the
\* same time and the store was reachable for every call made for that id,
\* exactly one call for that id reports Stored with the id of the new row,
\* every other one reports AlreadyExists with null, and none raises an error.
C2_ExactlyOneInsertWins ==
    \A d1, d2 \in Deliveries :
        ( /\ d1 < d2 /\ req[d2].raced
          /\ req[d1].event.id = req[d2].event.id
          /\ d1 \in AnsweredCalls(req[d1].event.id)
          /\ d2 \in AnsweredCalls(req[d1].event.id)
          /\ \A d \in Deliveries :
                (PastStore(d) /\ req[d].event.id = req[d1].event.id) => req[d].storeUp )
        => LET G == AnsweredCalls(req[d1].event.id)
               W == {d \in G : req[d].storeResult = "Stored"}
           IN /\ Cardinality(W) = 1
              /\ \A d \in W : \E r \in rows : r.id = req[d].storeId /\ r.event_id = req[d].event.id
              /\ \A d \in G \ W : req[d].storeResult = "AlreadyExists" /\ req[d].storeId = 0

\* Two store calls for one id were pending together, and the one issued
\* later won the insert.
C2_Witness ==
    \E d1, d2 \in Deliveries :
        /\ d1 < d2 /\ req[d2].raced
        /\ req[d1].event.id = req[d2].event.id
        /\ PastStore(d1) /\ PastStore(d2)
        /\ req[d2].storeResult = "Stored"
        /\ req[d1].storeResult = "AlreadyExists"

\* C3: when the same correctly signed event is delivered twice in sequence
\* while the store is reachable, the second store call reports AlreadyExists,
\* both deliveries are answered 200 with {received, eventId, eventType}, and
\* the table holds exactly one row for the id.
C3_RedeliveryIdempotent ==
    \A d1, d2 \in Deliveries :
        ( /\ d1 < d2 /\ req[d2].sequential
          /\ Verified(d1) /\ Verified(d2)
          /\ req[d1].event = req[d2].event
          /\ req[d1].storeUp
          /\ Done(d2) /\ req[d2].storeUp )
        => /\ req[d2].storeResult = "AlreadyExists"
           /\ req[d1].status = 200 /\ req[d2].status = 200
           /\ req[d1].body = AckBody(req[d1].event)
           /\ req[d2].body = req[d1].body
           /\ Cardinality(ConflictRows(rows, req[d1].event)) = 1

\* C4: every delivery that passed signature verification is answered 200,
\* whether its store call reported Stored, AlreadyExists or StoreFailed.
C4_VerifiedAnswered200 ==
    \A d \in Deliveries :
        (Done(d) /\ Verified(d)) => req[d].status = 200

\* C5: a delivery without signature header is answered 400 without the
\* secret being consulted, without the verification primitive being invoked
\* and without any store interaction, whether or not a secret is configured.
C5_MissingSignatureShortCircuit ==
    [][ \A d \in Deliveries :
          (Arrives(d) /\ req'[d].sig = "absent")
          => /\ req'[d].pc = "done"
             /\ req'[d].status = 400
             /\ req'[d].did = {}
             /\ rows' = rows /\ seq' = seq ]_vars

\* A delivery without signature was rejected while no secret is configured.
C5_Witness ==
    \E d \in Deliveries :
        Done(d) /\ req[d].sig = "absent" /\ ~secretSet /\ req[d].status = 400

\* C6: a delivery with a signature header, arriving while no secret is
\* configured, is answered 500 and not 400; the verification primitive is
\* not invoked and the store is left unchanged.
C6_MissingSecretIs500 ==
    [][ \A d \in Deliveries :
          (Arrives(d) /\ req'[d].sig # "absent" /\ ~secretSet)
          => /\ req'[d].pc = "done"
             /\ req'[d].status = 500
             /\ "verify" \notin req'[d].did
             /\ "store" \notin req'[d].did
             /\ rows' = rows /\ seq' = seq ]_vars

\* A correctly signed delivery was answered 500 for want of a secret.
C6_Witness ==
    \E d \in Deliveries :
        Done(d) /\ req[d].sig = "valid" /\ ~secretSet /\ req[d].status = 500

\* Every row carries the id, type and payload of a verified delivery.
RowsAreVerified ==
    \A r \in rows : \E d \in Deliveries :
        /\ Verified(d) /\ PastStore(d)
        /\ r.event_id = req[d].event.id
        /\ r.event_type = req[d].event.type
        /\ r.event_data = req[d].event

\* A delivery whose verification fails is answered 400 and changes no row.
InvalidSignatureRejected ==
    \A d \in Deliveries :
        (Arrives(d) /\ req'[d].sig = "invalid" /\ secretSet)
        => /\ req'[d].pc = "done"
           /\ req'[d].status = 400
           /\ rows' = rows /\ seq' = seq

\* C7: only verified events are stored: every row's id, type and payload are
\* those of a delivery that passed verification, and a delivery whose
\* verification fails is answered 400 and leaves the store unchanged.
C7_OnlyVerifiedStored ==
    []RowsAreVerified /\ [][InvalidSignatureRejected]_vars

\* A row exists and a delivery with an invalid signature was rejected after
\* some insert.
C7_Witness ==
    /\ rows # {}
    /\ \E d \in Deliveries :
          /\ Done(d) /\ req[d].sig = "invalid" /\ req[d].status = 400
          /\ \E e \in Deliveries : e < d /\ req[e].storeResult = "Stored"

\* C8: rows are never changed or removed, also not by a later verified
\* delivery of the same id with another type or payload.
C8_RowsImmutable ==
    [][ \A r \in rows : r \in rows' ]_vars

\* A verified delivery whose id is stored with a different type or payload
\* has executed its insert.
C8_Witness ==
    \E d \in Deliveries :
        /\ Verified(d) /\ PastStore(d) /\ req[d].storeUp
        /\ \E r \in rows : r.event_id = req[d].event.id /\ r.event_data # req[d].event

\* C9: every delivery that passed verification is eventually answered 200,
\* also when its store call never returns.  (Events on which the switch
\* throws are left aside here; C4 covers them.)
C9_VerifiedEventuallyAcknowledged ==
    \A d \in Deliveries :
        (req[d].pc = "query" /\ ~SwitchThrows(req[d].event))
        ~> (Done(d) /\ req[d].status = 200)

\* C10: for every event type, named in the switch or not, a verified
\* delivery is answered 200 and, when its insert took effect, is stored under
\* its id with that type.
C10_TypeIndependent ==
    \A t \in EventTypes, d \in Deliveries :
        (Verified(d) /\ Done(d) /\ req[d].event.type = t)
        => /\ req[d].status = 200
           /\ req[d].storeResult = "Stored"
              => \E r \in rows : /\ r.id = req[d].storeId
                                 /\ r.event_id = req[d].event.id
                                 /\ r.event_type = t

----------------------------------------------------------------------------
(* Properties of the read endpoints                                        *)

\* The latest response is an answered list of events.
Listed == resp.kind = "list" /\ resp.status = 200

\* Row a comes before row b by created_at descending, then id descending.
Before(a, b) ==
    \/ a.created_at > b.created_at
    \/ a.created_at = b.created_at /\ a.id > b.id

\* C11: the events GET /events returns are ordered by created_at descending
\* and, among rows of equal created_at, by id descending.
C11_ListOrderDetermined ==
    Listed => \A i, j \in DOMAIN resp.events :
                 i < j => Before(resp.events[i], resp.events[j])

\* The rows of rs have pairwise distinct created_at.
DistinctTimes(rs) ==
    \A a, b \in rs : a # b => a.created_at # b.created_at

\* The rows of rs at places lo..hi, counted from the most recent one.
MostRecent(rs, lo, hi) ==
    {r \in rs :
        LET place == 1 + Cardinality({o \in rs : o.created_at > r.created_at})
        IN  lo <= place /\ place <= hi}

\* The rows of a list response.
Page(p) == {p.events[i] : i \in DOMAIN p.events}

\* The latest response answers GET /events?limit=k&offset=o without a type.
PageOf(p, k, o) ==
    /\ p.kind = "list" /\ p.up /\ p.typeQ = "absent"
    /\ ParseInt(p.limitQ) = {k}
    /\ ParseInt(p.offsetQ) = {o}

\* The response p holds exactly the rows of rs at places lo..hi.
HoldsPlaces(p, rs, lo, hi) ==
    /\ p.status = 200
    /\ Len(p.events) = Cardinality(Page(p))
    /\ Page(p) = MostRecent(rs, lo, hi)

\* C12: on a store of N rows with distinct created_at that no insert
\* changes, and k with N >= 2k, GET /events with limit k and offset 0
\* returns exactly the k most recent rows, and with limit k and offset k
\* exactly the next k, so the two pages neither overlap nor leave a gap.
C12_PagesPartition ==
    \A k \in 0..MaxDeliveries :
        (DistinctTimes(rows) /\ Cardinality(rows) >= 2 * k)
        => /\ PageOf(resp, k, 0) => HoldsPlaces(resp, rows, 1, k)
           /\ PageOf(resp, k, k) => HoldsPlaces(resp, rows, k + 1, 2 * k)

\* C13: while the store is reachable GET /events answers 200 whatever the
\* query input; a missing or non-numeric limit becomes 50, a missing or
\* non-numeric offset becomes 0, and the limit and offset passed to the
\* store are never negative.
C13_BadInputNormalised ==
    (resp.kind = "list" /\ resp.up)
    => /\ resp.status = 200
       /\ resp.limit >= 0 /\ resp.offset >= 0
       /\ ParseInt(resp.limitQ) = {} => resp.limit = DefaultLimit
       /\ ParseInt(resp.offsetQ) = {} => resp.offset = 0

LookupAnswered == resp' # resp /\ resp'.kind = "byId" /\ resp'.up

\* C15: while the store is reachable GET /events/:eventId answers 200 with
\* the stored row when a row with that event_id exists and 404 otherwise;
\* once a verified delivery of an event has been stored, the lookup of its
\* id returns a row whose event_data is that event.
C15_LookupFindsStored ==
    [][ LookupAnswered =>
          LET hit == {r \in rows : r.event_id = resp'.eventId} IN
          /\ hit = {} => resp'.status = 404 /\ resp'.found = {}
          /\ hit # {} => resp'.status = 200 /\ resp'.found # {} /\ resp'.found \subseteq hit
          /\ \A d \in Deliveries :
                (req[d].storeResult = "Stored" /\ req[d].event.id = resp'.eventId)
                => /\ resp'.status = 200
                   /\ \A r \in resp'.found : r.event_data = req[d].event ]_vars

\* A lookup answered 200 for the id of an event that a delivery stored.
C15_Witness ==
    /\ resp.kind = "byId" /\ resp.up /\ resp.status = 200
    /\ \E d \in Deliveries :
          /\ req[d].storeResult = "Stored" /\ req[d].event.id = resp.eventId
          /\ \E r \in resp.found : r.event_data = req[d].event

\* C16: GET /events, GET /events/:eventId and GET /health, with any
\* parameters and whether they are answered 200, 404 or 500, leave the
\* table, its id sequence and schema unchanged and change nothing the
\* process keeps: only the response differs.  (Every step of ReadSpec is
\* one of the three handlers.)
C16_ReadsChangeNothing ==
    [][ /\ rows' = rows /\ seq' = seq /\ now' = now /\ schema' = schema
        /\ secretSet' = secretSet /\ req' = req /\ proc' = proc ]_vars

\* A read of each outcome over a non-empty table: here a failed list.
C16_Witness ==
    /\ rows # {}
    /\ resp.kind = "list" /\ resp.status = 500

----------------------------------------------------------------------------
(* Acknowledgment after storage                                            *)

\* C17: a verified delivery is answered only after its store call has
\* returned, and when it is answered 200 and the store call did not fail, a
\* row with the event's id is in the table, so a lookup of the id made after
\* the acknowledgment finds it.
C17_AckAfterStore ==
    \A d \in Deliveries :
        (Done(d) /\ Verified(d))
        => /\ PastStore(d) /\ req[d].storeResult # "none"
           /\ (req[d].status = 200 /\ req[d].storeResult # "StoreFailed")
              => SelectByEventId(rows, req[d].event.id).result # {}

\* A delivery acknowledged with 200 whose store call reported that the row
\* was already there.
C17_Witness ==
    \E d \in Deliveries :
        /\ Done(d) /\ Verified(d) /\ req[d].status = 200
        /\ req[d].storeResult = "AlreadyExists"
        /\ SelectByEventId(rows, req[d].event.id).result # {}

----------------------------------------------------------------------------
(* Startup and shutdown                                                    *)

\* The process ended without any signal: startServer's catch ran.
StartupFailed == proc.phase = "exited" /\ proc.poolEnds = 0

\* C18: the server listens only after the three statements of
\* initializeDatabase have completed, so no delivery is handled before the
\* table and its indexes exist; when a statement fails the process exits
\* with code 1 and has never listened; and a statement of initializeDatabase
\* leaves the rows alone and, when its object already exists, the schema too.
C18_ListenAfterInitialization ==
    /\ [] /\ proc.listened => (proc.step = Len(InitStatements) /\ schema = SchemaObjects)
          /\ proc.phase = "listening" => proc.listened
          /\ \A d \in Deliveries : req[d].pc # "idle" => proc.listened
          /\ StartupFailed => (proc.exitCode = 1 /\ ~proc.listened)
    /\ [][ proc'.step # proc.step =>
              /\ rows' = rows /\ seq' = seq
              /\ InitStatements[proc.step + 1] \in schema => schema' = schema ]_vars

\* The server was started on a table that already held the row of evt_1,
\* listens, and has answered a delivery of evt_1 that found the row there.
C18_Witness ==
    /\ proc.phase = "listening"
    /\ \E d \in Deliveries :
          /\ Done(d) /\ req[d].storeResult = "AlreadyExists"
          /\ \A e \in Deliveries : req[e].storeResult # "Stored"

\* C19: whatever signals arrive, also a second one while the handler of the
\* first is waiting for the pool to close, pool.end() is called at most
\* once, and the started server exits with code 0.
C19_PoolEndedOnce ==
    /\ proc.poolEnds <= 1
    /\ (proc.phase = "exited" /\ proc.listened) => proc.exitCode = 0

====
